---- MODULE Spec2Model ----
(***************************************************************************)
(* Software clock of microbit-pxt-softclock (namespace timeAndDate).       *)
(*                                                                         *)
(* The clock is three module-level numbers (startYear, timeToSetpoint,     *)
(* cpuTimeAtSetpoint) and the running time of the device.  Every exported  *)
(* function of softdatetime.ts is one action; the calendar arithmetic is   *)
(* given as operators that compute what the TypeScript computes, with the  *)
(* number semantics of the language: Math.idiv and % truncate towards      *)
(* zero, an array read outside its bounds is undefined, and arithmetic on  *)
(* undefined gives NaN, which every comparison rejects.                    *)
(*                                                                         *)
(* Spec runs the exported functions one whole call at a time; SpecFibers   *)
(* runs them line by line in two event-handler fibers; SpecShim runs the   *)
(* C++ function cpuTimeInSeconds against the microsecond ticker; the       *)
(* calendar and rendering functions have specifications of their own.      *)
(***************************************************************************)
EXTENDS Integers, Sequences, FiniteSets, TLC

VARIABLES
    startYear,          \* softdatetime.ts:67
    timeToSetpoint,     \* softdatetime.ts:68  (a number, possibly NaN)
    cpuTimeAtSetpoint,  \* softdatetime.ts:69
    runningTime,        \* input.runningTime(): milliseconds since power-on
    serialOut,          \* the last line advanceBy wrote to the serial port
    lastCall,           \* the exported function that ran last, with its arguments
    result,             \* what that call returned or handed to its handler
    advances,           \* number of advanceBy calls so far (bounded by MaxAdvances)
    calc,               \* scratch record of the calendar-function runs (SpecCalendar)
    lastUs,             \* part_000:51  static of cpuTimeInSeconds
    totalUs,            \* part_000:52  static of cpuTimeInSeconds
    usTicker,           \* us_ticker_read(): the 32-bit microsecond ticker
    elapsedUs,          \* microseconds the ticker has advanced by since device start
    tickerSteps,        \* number of times the ticker has been let advance (bounded)
    readings,           \* the calls of cpuTimeInSeconds, oldest first: what each returned
    sent,               \* everything loopUntilSent has sent to the serial port, in order
    fiber,              \* the event handlers in flight: where each is, and its locals
    running,            \* the fiber that holds the processor, 0 when none does
    settled,            \* the clock as the last mutator to return left it
    blocked             \* the advanceBy calls that are inside serial.writeLine: <<amount, unit>>

shimVars == <<lastUs, totalUs, usTicker, elapsedUs, tickerSteps, readings, sent>>

fiberVars == <<fiber, running, settled, blocked>>

vars == <<startYear, timeToSetpoint, cpuTimeAtSetpoint, runningTime, serialOut,
          lastCall, result, advances, calc, shimVars, fiberVars>>

clock == <<startYear, timeToSetpoint, cpuTimeAtSetpoint>>

-----------------------------------------------------------------------------
(* Numbers.  NaN stands for the IEEE not-a-number; it is an integer no     *)
(* computation of the model can produce, and no arithmetic is ever done on *)
(* it: the operators below test for it first, as the hardware does.        *)

NaN == -(2147483647)

isNaN(x) == x = NaN

\* a + b
add(a, b) == IF isNaN(a) \/ isNaN(b) THEN NaN ELSE a + b

\* a - b
sub(a, b) == IF isNaN(a) \/ isNaN(b) THEN NaN ELSE a - b

\* a * b
mul(a, b) == IF isNaN(a) \/ isNaN(b) THEN NaN ELSE a * b

\* a > b, a <= b, a < b: false when either side is NaN
gt(a, b) == ~isNaN(a) /\ ~isNaN(b) /\ a > b
le(a, b) == ~isNaN(a) /\ ~isNaN(b) /\ a <= b
lt(a, b) == ~isNaN(a) /\ ~isNaN(b) /\ a < b

\* Math.idiv(a, b) = ((a|0) / (b|0)) | 0 for b > 0: truncates towards zero, NaN|0 = 0
idiv(a, b) ==
    IF isNaN(a) THEN 0
    ELSE IF a >= 0 THEN a \div b ELSE -((-a) \div b)

\* a % b for b > 0: the remainder has the sign of a; NaN % b = NaN
rem(a, b) ==
    IF isNaN(a) THEN NaN
    ELSE IF a >= 0 THEN a % b ELSE -((-a) % b)

-----------------------------------------------------------------------------
(* Enumerations, with the numeric values TypeScript gives them.            *)

AM == 0
PM == 1

Milliseconds == 0
Seconds == 1
Minutes == 2
Hours == 3
Days == 4

AMPM == 0
HHMM24hr == 1

MD == 0
MDYYYY == 1
YYYY_MM_DD == 2

-----------------------------------------------------------------------------
(* Calendar arithmetic.                                                    *)

\* const cdoy: index 0 of the array is index 1 of this sequence
cdoy == <<0, 0, 31, 59, 90, 120, 151, 181, 212, 243, 273, 304, 334, 365>>

\* cdoy[i]: undefined outside 0..13, which arithmetic and comparison treat as NaN
cdoyAt(i) == IF i \in 0..(Len(cdoy) - 1) THEN cdoy[i + 1] ELSE NaN

isLeapYear(y) == (y % 400 = 0) \/ (y % 100 # 0 /\ y % 4 = 0)

dateToDayOfYear(m, d, y) ==
    LET dayOfYear == add(cdoyAt(m), d)
    IN  IF m > 2 /\ isLeapYear(y) THEN add(dayOfYear, 1) ELSE dayOfYear

DateTime(mo, dd, yy, hh, mm, ss, doy) ==
    [month |-> mo, day |-> dd, year |-> yy, hour |-> hh, minute |-> mm,
     second |-> ss, dayOfYear |-> doy]

\* the for loop of dayOfYearToMonthAndDay, from index i on
RECURSIVE monthScan(_, _)
monthScan(d, i) ==
    IF i < Len(cdoy)
    THEN IF le(d, cdoyAt(i + 1))
         THEN DateTime(i, d - cdoyAt(i), 0, 0, 0, 0, 0)
         ELSE monthScan(d, i + 1)
    ELSE DateTime(-1, -1, 0, 0, 0, 0, 0)

\* dayOfYearToMonthAndDay without the leap-day adjustment
dayOfYearToMonthAndDay_noLeapAdjust(d, y) ==
    IF isLeapYear(y) /\ d = 60
    THEN DateTime(2, 29, 0, 0, 0, 0, 0)
    ELSE monthScan(d, 1)

dayOfYearToMonthAndDay(d, y) ==
    IF isLeapYear(y) /\ d = 60
    THEN DateTime(2, 29, 0, 0, 0, 0, 0)
    ELSE monthScan(IF isLeapYear(y) /\ d > 60 THEN d - 1 ELSE d, 1)

secondsSoFarForYear(m, d, y, hh, mm, ss) ==
    add(mul(add(mul(add(mul(sub(dateToDayOfYear(m, d, y), 1), 24), hh), 60), mm), 60), ss)

\* the while loop of timeFor with a second loop that rolls back over the years before
RECURSIVE rollYears_backward(_, _)
rollYears_backward(s, y) ==
    IF lt(s, 0)
    THEN rollYears_backward(IF isLeapYear(y - 1) THEN s + 366 * 24 * 60 * 60
                                                 ELSE s + 365 * 24 * 60 * 60, y - 1)
    ELSE IF (~isLeapYear(y) /\ gt(s, 365 * 24 * 60 * 60)) \/ gt(s, 366 * 24 * 60 * 60)
         THEN rollYears_backward(IF isLeapYear(y) THEN s - 366 * 24 * 60 * 60
                                                  ELSE s - 365 * 24 * 60 * 60, y + 1)
         ELSE <<s, y>>

\* the while loop of timeFor: <<sSinceStartOfYear, y>> when it ends
RECURSIVE rollYears(_, _)
rollYears(s, y) ==
    IF (~isLeapYear(y) /\ gt(s, 365 * 24 * 60 * 60)) \/ gt(s, 366 * 24 * 60 * 60)
    THEN rollYears(IF isLeapYear(y) THEN s - 366 * 24 * 60 * 60
                                    ELSE s - 365 * 24 * 60 * 60, y + 1)
    ELSE <<s, y>>

\* timeFor(cpuTime) read against the clock <<sy, tts, cas>>
timeForClock(sy, tts, cas, cpuTime) ==
    LET deltaTime == cpuTime - cas
        rolled == rollYears(add(tts, deltaTime), sy)
        sSinceStartOfYear == rolled[1]
        y == rolled[2]
        daysFromStartOfYear == idiv(sSinceStartOfYear, 24 * 60 * 60) + 1
        secondsSinceStartOfDay == rem(sSinceStartOfYear, 24 * 60 * 60)
        hoursFromStartOfDay == idiv(secondsSinceStartOfDay, 60 * 60)
        secondsSinceStartOfHour == rem(secondsSinceStartOfDay, 60 * 60)
        minutesFromStartOfHour == idiv(secondsSinceStartOfHour, 60)
        secondsSinceStartOfMinute == rem(secondsSinceStartOfHour, 60)
        ddmm == dayOfYearToMonthAndDay(daysFromStartOfYear, y)
    IN  DateTime(ddmm.month, ddmm.day, y, hoursFromStartOfDay,
                 minutesFromStartOfHour, secondsSinceStartOfMinute,
                 daysFromStartOfYear)

\* timeFor(cpuTime) against the current clock
timeFor(cpuTime) == timeForClock(startYear, timeToSetpoint, cpuTimeAtSetpoint, cpuTime)

\* timeInSeconds(): whole seconds of the running time
timeInSeconds == idiv(runningTime, 1000)

-----------------------------------------------------------------------------
(* Formatting.                                                             *)

\* the value undefined, which a function that returns nothing gives its caller; it is
\* written as a text none of the functions can return
undefined == "undefined"

digit(n) == <<"0", "1", "2", "3", "4", "5", "6", "7", "8", "9">>[n + 1]

\* the decimal digits of a natural number
RECURSIVE natToString(_)
natToString(n) == IF n < 10 THEN digit(n) ELSE natToString(n \div 10) \o digit(n % 10)

\* inp + "": a number as the string JavaScript prints
numToString(n) ==
    IF isNaN(n) THEN "NaN"
    ELSE IF n < 0 THEN "-" \o natToString(-n) ELSE natToString(n)

\* the while loop of leftZeroPadTo
RECURSIVE padLoop(_, _)
padLoop(value, digits) == IF Len(value) < digits THEN padLoop("0" \o value, digits) ELSE value

leftZeroPadTo(inp, digits) == padLoop(numToString(inp), digits)

dayOfWeek(m, d, y) ==
    LET D == rem(y, 100)
        C == idiv(y, 100)
    IN  d + idiv(13 * m - 1, 5) + D + idiv(D, 4) + idiv(C, 4) - 2 * C

fullTime(t) ==
    leftZeroPadTo(t.hour, 2) \o ":" \o leftZeroPadTo(t.minute, 2) \o "." \o leftZeroPadTo(t.second, 2)

fullYear(t) ==
    leftZeroPadTo(t.year, 4) \o "-" \o leftZeroPadTo(t.month, 2) \o "-" \o leftZeroPadTo(t.day, 2)

\* time(format) that takes 12 off the hour from 12 on, not after 12
timeString_from12(t, format) ==
    IF format = HHMM24hr
    THEN fullTime(t)
    ELSE IF format = AMPM
         THEN LET ap == IF lt(t.hour, 12) THEN "am" ELSE "pm"
                  hour == IF t.hour = 0 THEN 12
                          ELSE IF ~lt(t.hour, 12) THEN t.hour - 12 ELSE t.hour
              IN  numToString(hour) \o ":" \o leftZeroPadTo(t.minute, 2) \o "."
                      \o leftZeroPadTo(t.second, 2) \o ap
         ELSE undefined

\* what time(format) returns for the resolved instant t: the switch has no default, so a
\* format that is neither case falls off the end of the function
timeString(t, format) ==
    IF format = HHMM24hr
    THEN fullTime(t)
    ELSE IF format = AMPM
         THEN LET ap == IF lt(t.hour, 12) THEN "am" ELSE "pm"
                  hour == IF t.hour = 0 THEN 12
                          ELSE IF gt(t.hour, 12) THEN t.hour - 12 ELSE t.hour
              IN  numToString(hour) \o ":" \o leftZeroPadTo(t.minute, 2) \o "."
                      \o leftZeroPadTo(t.second, 2) \o ap
         ELSE undefined

\* the string date(format) returns for the resolved instant t
dateString(t, format) ==
    IF format = MD THEN numToString(t.month) \o "/" \o numToString(t.day)
    ELSE IF format = MDYYYY
         THEN numToString(t.month) \o "/" \o numToString(t.day) \o "/" \o numToString(t.year)
         ELSE IF format = YYYY_MM_DD THEN fullYear(t) ELSE ""

\* the string dateTime() returns for the resolved instant t
dateTimeString(t) == fullYear(t) \o " " \o fullTime(t)

-----------------------------------------------------------------------------
(* The mutators as functions of the clock c = <<startYear, timeToSetpoint, *)
(* cpuTimeAtSetpoint>> and of the reading cpuTime = timeInSeconds().       *)

\* set24HourTime that also stores the year it resolved
set24HourTimeOn_setsYear(c, cpuTime, hour, minute, second) ==
    LET t == timeForClock(c[1], c[2], c[3], cpuTime)
    IN  <<t.year, secondsSoFarForYear(t.month, t.day, t.year, hour, minute, second), cpuTime>>

set24HourTimeOn(c, cpuTime, hour, minute, second) ==
    LET t == timeForClock(c[1], c[2], c[3], cpuTime)
    IN  <<c[1], secondsSoFarForYear(t.month, t.day, t.year, hour, minute, second), cpuTime>>

setDateOn(c, cpuTime, month, day, year) ==
    LET t == timeForClock(c[1], c[2], c[3], cpuTime)
    IN  <<year, secondsSoFarForYear(month, day, year, t.hour, t.minute, t.second), cpuTime>>

\* the hour setTime hands to set24HourTime
adjustTo24Hour(hour, ampm) ==
    IF ampm = AM /\ hour = 12 THEN 0
    ELSE IF hour < 12 THEN hour + 12 ELSE hour

setTimeOn(c, cpuTime, hour, minute, second, ampm) ==
    set24HourTimeOn(c, cpuTime, adjustTo24Hour(hour, ampm), minute, second)

\* units with the milliseconds counted as seconds
units_msAsSeconds == <<1, 1, 60 * 1, 60 * 60 * 1, 24 * 60 * 60 * 1>>

\* const units of advanceBy, indexed by TimeUnit
units == <<0, 1, 60 * 1, 60 * 60 * 1, 24 * 60 * 60 * 1>>

\* advanceBy with += for -=
advanceByOn_adds(c, amount, unit) == <<c[1], c[2], c[3] + amount * units[unit + 1]>>

advanceByOn(c, amount, unit) == <<c[1], c[2], c[3] - amount * units[unit + 1]>>

-----------------------------------------------------------------------------
(* Bounds and the inputs the calls are tried with.                         *)

\* the device runs for at most this many seconds
MaxSeconds == 3

\* advanceBy is called at most this many times
MaxAdvances == 1

TickMs == {2500}

SetDates == {<<1, 1, 2022>>, <<6, 15, 2024>>, <<12, 31, 2024>>}

SetTimes24 == {<<10, 30, 0>>, <<23, 59, 30>>}

SetTimes12 == {<<12, 0, 0, AM>>, <<1, 0, 0, AM>>, <<1, 0, 0, PM>>}

ForwardAdvances == {<<366, Days>>, <<1000, Milliseconds>>}

BackwardAdvances == {<<-5, Seconds>>}

TimeFormats == {AMPM, HHMM24hr}
DateFormats == {MD, MDYYYY, YYYY_MM_DD}

NoResult == [t |-> DateTime(0, 0, 0, 0, 0, 0, 0), text |-> "", handler |-> <<>>]

Call(op, args) == [op |-> op, args |-> args]

\* the years the calendar functions are run on: leap, non-leap, and both century kinds
CalendarYears == {2000, 2023, 2024, 2100}

\* the hours, minutes and seconds the rendering is tried on
RenderHours == 0..23
RenderMinutes == {0, 5, 59}
RenderSeconds == {0, 7, 59}

\* the days of the year the inverse lookup is tried on: before, inside and after the year
DayOfYearInputs == -2..368

\* the Gregorian length of month m of year y
daysInMonth(m, y) ==
    IF m = 2
    THEN (IF (y % 4 = 0 /\ y % 100 # 0) \/ y % 400 = 0 THEN 29 ELSE 28)
    ELSE IF m \in {4, 6, 9, 11} THEN 30 ELSE 31

NoCalc == [step |-> "idle", m |-> 0, d |-> 0, y |-> 0, dayOfYear |-> 0, month |-> 0, day |-> 0]

\* the event-handler fibers of the program
Fibers == {1, 2}

\* a fiber that runs no handler
IdleFiber == [pc |-> "idle", op |-> "none", args |-> <<>>, runs |-> 0,
              cpuTime |-> 0, t |-> DateTime(0, 0, 0, 0, 0, 0, 0), entry |-> 0,
              operand |-> 0, shift |-> 0, text |-> "", partial |-> FALSE,
              currentUs |-> <<0, 0>>, line |-> "", str |-> "", reading |-> 0]

\* the statics of cpuTimeInSeconds and the ticker at device start
InitShim ==
    /\ lastUs = <<0, 0>>
    /\ totalUs = <<0, 0>>
    /\ usTicker = <<0, 0>>
    /\ elapsedUs = <<0, 0>>
    /\ tickerSteps = 0
    /\ readings = <<>>
    /\ sent = ""

\* no handler is in flight at device start
InitFibers ==
    /\ fiber = [f \in Fibers |-> IdleFiber]
    /\ running = 0
    /\ settled = <<0, 0, 0>>
    /\ blocked = <<>>

-----------------------------------------------------------------------------
(* The exported functions.                                                 *)

Init ==
    /\ startYear = 0
    /\ timeToSetpoint = 0
    /\ cpuTimeAtSetpoint = 0
    /\ runningTime = 0
    /\ serialOut = ""
    /\ lastCall = Call("powerOn", <<>>)
    /\ result = NoResult
    /\ advances = 0
    /\ calc = NoCalc
    /\ InitShim
    /\ InitFibers

\* the device's running time moves on by dt milliseconds
Tick(dt) ==
    /\ runningTime + dt <= MaxSeconds * 1000
    /\ runningTime' = runningTime + dt
    /\ lastCall' = Call("tick", <<dt>>)
    /\ result' = NoResult
    /\ UNCHANGED <<startYear, timeToSetpoint, cpuTimeAtSetpoint, serialOut, advances, calc, shimVars, fiberVars>>

set24HourTime(hour, minute, second) ==
    LET c == set24HourTimeOn(clock, timeInSeconds, hour, minute, second)
    IN  /\ startYear' = c[1]
        /\ timeToSetpoint' = c[2]
        /\ cpuTimeAtSetpoint' = c[3]
        /\ lastCall' = Call("set24HourTime", <<hour, minute, second>>)
        /\ result' = NoResult
        /\ UNCHANGED <<runningTime, serialOut, advances, calc, shimVars, fiberVars>>

setDate(month, day, year) ==
    LET c == setDateOn(clock, timeInSeconds, month, day, year)
    IN  /\ startYear' = c[1]
        /\ timeToSetpoint' = c[2]
        /\ cpuTimeAtSetpoint' = c[3]
        /\ lastCall' = Call("setDate", <<month, day, year>>)
        /\ result' = NoResult
        /\ UNCHANGED <<runningTime, serialOut, advances, calc, shimVars, fiberVars>>

setTime(hour, minute, second, ampm) ==
    LET c == setTimeOn(clock, timeInSeconds, hour, minute, second, ampm)
    IN  /\ startYear' = c[1]
        /\ timeToSetpoint' = c[2]
        /\ cpuTimeAtSetpoint' = c[3]
        /\ lastCall' = Call("setTime", <<hour, minute, second, ampm>>)
        /\ result' = NoResult
        /\ UNCHANGED <<runningTime, serialOut, advances, calc, shimVars, fiberVars>>

\* advanceBy, lines 269-270: the unit is written to the serial port; serial.writeLine is
\* a blocking call, in which the caller gives up the processor
advanceBy(amount, unit) ==
    /\ advances < MaxAdvances
    /\ advances' = advances + 1
    /\ serialOut' = numToString(unit)
    /\ blocked' = Append(blocked, <<amount, unit>>)
    /\ lastCall' = Call("advanceBy:270", <<amount, unit>>)
    /\ result' = NoResult
    /\ UNCHANGED <<startYear, timeToSetpoint, cpuTimeAtSetpoint, runningTime, calc,
                   shimVars, fiber, running, settled>>

\* advanceBy, line 271: the i-th blocked call goes on, subtracts and returns
advanceBy_271(i) ==
    LET c == advanceByOn(clock, blocked[i][1], blocked[i][2])
    IN  /\ i \in 1..Len(blocked)
        /\ startYear' = c[1]
        /\ timeToSetpoint' = c[2]
        /\ cpuTimeAtSetpoint' = c[3]
        /\ blocked' = SubSeq(blocked, 1, i - 1) \o SubSeq(blocked, i + 1, Len(blocked))
        /\ lastCall' = Call("advanceBy", blocked[i])
        /\ result' = NoResult
        /\ UNCHANGED <<runningTime, serialOut, advances, calc, shimVars, fiber, running,
                       settled>>

\* numericTime that moves the setpoint to the reading it took
numericTime_resync ==
    LET t == timeFor(timeInSeconds)
    IN  /\ result' = [t |-> t, text |-> "",
                      handler |-> <<t.hour, t.minute, t.second,
                                    dayOfWeek(t.month, t.day, t.year),
                                    t.day, t.month, t.year, t.dayOfYear>>]
        /\ lastCall' = Call("numericTime", <<>>)
        /\ cpuTimeAtSetpoint' = timeInSeconds
        /\ UNCHANGED <<startYear, timeToSetpoint, runningTime, serialOut, advances, calc, shimVars, fiberVars>>

\* numericTime(handler): the handler is handed the eight numbers
numericTime ==
    LET t == timeFor(timeInSeconds)
    IN  /\ result' = [t |-> t, text |-> "",
                      handler |-> <<t.hour, t.minute, t.second,
                                    dayOfWeek(t.month, t.day, t.year),
                                    t.day, t.month, t.year, t.dayOfYear>>]
        /\ lastCall' = Call("numericTime", <<>>)
        /\ UNCHANGED <<startYear, timeToSetpoint, cpuTimeAtSetpoint, runningTime,
                       serialOut, advances, calc, shimVars, fiberVars>>

time(format) ==
    LET t == timeFor(timeInSeconds)
    IN  /\ result' = IF timeString(t, format) = undefined
                     THEN NoResult
                     ELSE [t |-> t, text |-> timeString(t, format), handler |-> <<>>]
        /\ lastCall' = Call("time", <<format>>)
        /\ UNCHANGED <<startYear, timeToSetpoint, cpuTimeAtSetpoint, runningTime,
                       serialOut, advances, calc, shimVars, fiberVars>>

date(format) ==
    LET t == timeFor(timeInSeconds)
    IN  /\ result' = [t |-> t, text |-> dateString(t, format), handler |-> <<>>]
        /\ lastCall' = Call("date", <<format>>)
        /\ UNCHANGED <<startYear, timeToSetpoint, cpuTimeAtSetpoint, runningTime,
                       serialOut, advances, calc, shimVars, fiberVars>>

dateTime ==
    LET t == timeFor(timeInSeconds)
    IN  /\ result' = [t |-> t, text |-> dateTimeString(t), handler |-> <<>>]
        /\ lastCall' = Call("dateTime", <<>>)
        /\ UNCHANGED <<startYear, timeToSetpoint, cpuTimeAtSetpoint, runningTime,
                       serialOut, advances, calc, shimVars, fiberVars>>

\* the three registrations have empty bodies: the handler is dropped
onMinuteChanged ==
    /\ lastCall' = Call("onMinuteChanged", <<>>)
    /\ result' = NoResult
    /\ UNCHANGED <<startYear, timeToSetpoint, cpuTimeAtSetpoint, runningTime,
                   serialOut, advances, calc, shimVars, fiberVars>>

onHourChanged ==
    /\ lastCall' = Call("onHourChanged", <<>>)
    /\ result' = NoResult
    /\ UNCHANGED <<startYear, timeToSetpoint, cpuTimeAtSetpoint, runningTime,
                   serialOut, advances, calc, shimVars, fiberVars>>

onDayChanged ==
    /\ lastCall' = Call("onDayChanged", <<>>)
    /\ result' = NoResult
    /\ UNCHANGED <<startYear, timeToSetpoint, cpuTimeAtSetpoint, runningTime,
                   serialOut, advances, calc, shimVars, fiberVars>>

\* every call but the start of advanceBy, and the passing of time
Others ==
    \/ \E dt \in TickMs : Tick(dt)
    \/ \E a \in SetTimes24 : set24HourTime(a[1], a[2], a[3])
    \/ \E a \in SetDates : setDate(a[1], a[2], a[3])
    \/ \E a \in SetTimes12 : setTime(a[1], a[2], a[3], a[4])
    \/ numericTime
    \/ \E f \in TimeFormats : time(f)
    \/ \E f \in DateFormats : date(f)
    \/ dateTime
    \/ onMinuteChanged
    \/ onHourChanged
    \/ onDayChanged
    \/ \E i \in 1..MaxAdvances : advanceBy_271(i)

Next ==
    \/ Others
    \/ \E a \in ForwardAdvances \cup BackwardAdvances : advanceBy(a[1], a[2])

Spec == Init /\ [][Next]_vars

\* the same program when advanceBy is only given amounts >= 0
NextForward ==
    \/ Others
    \/ \E a \in ForwardAdvances : advanceBy(a[1], a[2])

SpecForward == Init /\ [][NextForward]_vars

-----------------------------------------------------------------------------
(* The calendar functions run on their own: a date is drawn, turned into   *)
(* its day of the year, and turned back.                                   *)

InitCalendar ==
    /\ startYear = 0
    /\ timeToSetpoint = 0
    /\ cpuTimeAtSetpoint = 0
    /\ runningTime = 0
    /\ serialOut = ""
    /\ lastCall = Call("powerOn", <<>>)
    /\ result = NoResult
    /\ advances = 0
    /\ InitShim
    /\ InitFibers
    /\ \E y \in CalendarYears, m \in 1..12 :
         \E d \in 1..daysInMonth(m, y) :
           calc = [step |-> "date", m |-> m, d |-> d, y |-> y,
                   dayOfYear |-> 0, month |-> 0, day |-> 0]

RunDateToDayOfYear ==
    /\ calc.step = "date"
    /\ calc' = [calc EXCEPT !.step = "dayOfYear",
                            !.dayOfYear = dateToDayOfYear(calc.m, calc.d, calc.y)]
    /\ UNCHANGED <<startYear, timeToSetpoint, cpuTimeAtSetpoint, runningTime,
                   serialOut, lastCall, result, advances, shimVars, fiberVars>>

RunDayOfYearToMonthAndDay ==
    /\ calc.step = "dayOfYear"
    /\ LET md == dayOfYearToMonthAndDay(calc.dayOfYear, calc.y)
       IN  calc' = [calc EXCEPT !.step = "monthAndDay", !.month = md.month, !.day = md.day]
    /\ UNCHANGED <<startYear, timeToSetpoint, cpuTimeAtSetpoint, runningTime,
                   serialOut, lastCall, result, advances, shimVars, fiberVars>>

NextCalendar == RunDateToDayOfYear \/ RunDayOfYearToMonthAndDay

SpecCalendar == InitCalendar /\ [][NextCalendar]_vars

-----------------------------------------------------------------------------
(* dayOfYearToMonthAndDay run on its own, on any day number.               *)

InitDayOfYear ==
    /\ startYear = 0
    /\ timeToSetpoint = 0
    /\ cpuTimeAtSetpoint = 0
    /\ runningTime = 0
    /\ serialOut = ""
    /\ lastCall = Call("powerOn", <<>>)
    /\ result = NoResult
    /\ advances = 0
    /\ InitShim
    /\ InitFibers
    /\ \E y \in CalendarYears, d \in DayOfYearInputs :
         calc = [step |-> "dayOfYear", m |-> 0, d |-> 0, y |-> y,
                 dayOfYear |-> d, month |-> 0, day |-> 0]

SpecDayOfYear == InitDayOfYear /\ [][RunDayOfYearToMonthAndDay]_vars

-----------------------------------------------------------------------------
(* time(format) on a clock that setDate(6, 15, 2024) and set24HourTime(h,  *)
(* mi, s) have set at power-on, for every hour h of the day.               *)

InitRender ==
    /\ \E h \in RenderHours, mi \in RenderMinutes, sec \in RenderSeconds :
         /\ startYear = 2024
         /\ timeToSetpoint = secondsSoFarForYear(6, 15, 2024, h, mi, sec)
         /\ lastCall = Call("set24HourTime", <<h, mi, sec>>)
    /\ cpuTimeAtSetpoint = 0
    /\ runningTime = 0
    /\ serialOut = ""
    /\ result = NoResult
    /\ advances = 0
    /\ calc = NoCalc
    /\ InitShim
    /\ InitFibers

NextRender == \E f \in TimeFormats : time(f)

SpecRender == InitRender /\ [][NextRender]_vars

-----------------------------------------------------------------------------
(* The exported functions run as event handlers, each in a fiber of its    *)
(* own.  The scheduler is cooperative: a fiber keeps the processor from    *)
(* line to line and gives it up only in a blocking call or when its        *)
(* handler returns.  The only blocking call of the module is               *)
(* serial.writeLine in advanceBy.  A position is "function:line".          *)

\* each fiber runs at most this many handlers
MaxRuns == 2

\* the calls the events of the program dispatch
FiberCalls ==
    { Call("advanceBy", <<40, Seconds>>), Call("advanceBy", <<-5, Seconds>>),
      Call("setTime", <<1, 0, 0, PM>>), Call("setDate", <<6, 15, 2024>>),
      Call("dateTime", <<>>) }

\* the first line of each exported function
firstLine(op) ==
    IF op = "advanceBy" THEN "advanceBy:270"
    ELSE IF op = "setTime" THEN "setTime:257"
    ELSE IF op = "setDate" THEN "setDate:243"
    ELSE "dateTime:324"

\* the positions at which a mutator has stored some of its fields and not yet all
MidUpdate == {"set24HourTime:235", "setDate:246", "setDate:247"}

\* as yields, had set24HourTime a blocking call between its two stores
yields_betweenStores(pc) == pc \in {"advanceBy:270", "set24HourTime:234"}

\* the line at pc is a blocking call: the fiber gives up the processor in it
yields(pc) == pc = "advanceBy:270"

\* fiber f may run its next line: no other fiber holds the processor
mayRun(f, pc) == fiber[f].pc = pc /\ running \in {0, f}

\* who holds the processor after fiber f ran the line at pc and goes on at next
handOver(f, pc, next) == running' = IF yields(pc) \/ next = "idle" THEN 0 ELSE f

\* what the lines of a handler leave alone
FiberFrame == UNCHANGED <<runningTime, lastCall, result, advances, calc, shimVars, blocked>>

\* an event starts a handler in the idle fiber f
Dispatch(f, c) ==
    /\ fiber[f].pc = "idle"
    /\ fiber[f].runs < MaxRuns
    /\ fiber' = [fiber EXCEPT ![f] = [IdleFiber EXCEPT !.pc = firstLine(c.op), !.op = c.op,
                                                        !.args = c.args,
                                                        !.runs = fiber[f].runs + 1]]
    /\ UNCHANGED <<startYear, timeToSetpoint, cpuTimeAtSetpoint, serialOut, running, settled>>
    /\ FiberFrame

\* advanceBy, lines 269-270: serial.writeLine("" + unit)
advanceBy_270(f) ==
    /\ mayRun(f, "advanceBy:270")
    /\ serialOut' = numToString(fiber[f].args[2])
    /\ fiber' = [fiber EXCEPT ![f].pc = "advanceBy:271", ![f].entry = cpuTimeAtSetpoint]
    /\ handOver(f, "advanceBy:270", "advanceBy:271")
    /\ UNCHANGED <<startYear, timeToSetpoint, cpuTimeAtSetpoint, settled>>
    /\ FiberFrame

\* advanceBy, line 271: cpuTimeAtSetpoint is read
advanceBy_271_read(f) ==
    /\ mayRun(f, "advanceBy:271")
    /\ fiber' = [fiber EXCEPT ![f].pc = "advanceBy:271=", ![f].operand = cpuTimeAtSetpoint]
    /\ handOver(f, "advanceBy:271", "advanceBy:271=")
    /\ UNCHANGED <<startYear, timeToSetpoint, cpuTimeAtSetpoint, serialOut, settled>>
    /\ FiberFrame

\* advanceBy, line 271: the difference is stored, and the function returns
advanceBy_271_assign(f) ==
    LET c == advanceByOn(<<startYear, timeToSetpoint, fiber[f].operand>>,
                         fiber[f].args[1], fiber[f].args[2])
    IN  /\ mayRun(f, "advanceBy:271=")
        /\ cpuTimeAtSetpoint' = c[3]
        /\ fiber' = [fiber EXCEPT ![f].pc = "idle", ![f].shift = c[3] - cpuTimeAtSetpoint]
        /\ handOver(f, "advanceBy:271=", "idle")
        /\ settled' = <<startYear, timeToSetpoint, c[3]>>
        /\ UNCHANGED <<startYear, timeToSetpoint, serialOut>>
        /\ FiberFrame

\* setTime, lines 257-262: the hour is adjusted and set24HourTime called
setTime_257(f) ==
    /\ mayRun(f, "setTime:257")
    /\ fiber' = [fiber EXCEPT ![f].pc = "set24HourTime:232",
                              ![f].args = <<adjustTo24Hour(fiber[f].args[1], fiber[f].args[4]),
                                            fiber[f].args[2], fiber[f].args[3]>>]
    /\ handOver(f, "setTime:257", "set24HourTime:232")
    /\ UNCHANGED <<startYear, timeToSetpoint, cpuTimeAtSetpoint, serialOut, settled>>
    /\ FiberFrame

\* set24HourTime, lines 232-233: cpuTime and t
set24HourTime_232(f) ==
    /\ mayRun(f, "set24HourTime:232")
    /\ fiber' = [fiber EXCEPT ![f].pc = "set24HourTime:234", ![f].cpuTime = timeInSeconds,
                              ![f].t = timeFor(timeInSeconds)]
    /\ handOver(f, "set24HourTime:232", "set24HourTime:234")
    /\ UNCHANGED <<startYear, timeToSetpoint, cpuTimeAtSetpoint, serialOut, settled>>
    /\ FiberFrame

\* set24HourTime, line 234: cpuTimeAtSetpoint = cpuTime
set24HourTime_234(f) ==
    /\ mayRun(f, "set24HourTime:234")
    /\ cpuTimeAtSetpoint' = fiber[f].cpuTime
    /\ fiber' = [fiber EXCEPT ![f].pc = "set24HourTime:235"]
    /\ handOver(f, "set24HourTime:234", "set24HourTime:235")
    /\ UNCHANGED <<startYear, timeToSetpoint, serialOut, settled>>
    /\ FiberFrame

\* set24HourTime, line 235: timeToSetpoint is stored, and the function returns
set24HourTime_235(f) ==
    LET t == fiber[f].t
        tts == secondsSoFarForYear(t.month, t.day, t.year, fiber[f].args[1],
                                   fiber[f].args[2], fiber[f].args[3])
    IN  /\ mayRun(f, "set24HourTime:235")
        /\ timeToSetpoint' = tts
        /\ fiber' = [fiber EXCEPT ![f].pc = "idle"]
        /\ handOver(f, "set24HourTime:235", "idle")
        /\ settled' = <<startYear, tts, cpuTimeAtSetpoint>>
        /\ UNCHANGED <<startYear, cpuTimeAtSetpoint, serialOut>>
        /\ FiberFrame

\* setDate, lines 243-244: cpuTime and t
setDate_243(f) ==
    /\ mayRun(f, "setDate:243")
    /\ fiber' = [fiber EXCEPT ![f].pc = "setDate:245", ![f].cpuTime = timeInSeconds,
                              ![f].t = timeFor(timeInSeconds)]
    /\ handOver(f, "setDate:243", "setDate:245")
    /\ UNCHANGED <<startYear, timeToSetpoint, cpuTimeAtSetpoint, serialOut, settled>>
    /\ FiberFrame

\* setDate, line 245: startYear = year
setDate_245(f) ==
    /\ mayRun(f, "setDate:245")
    /\ startYear' = fiber[f].args[3]
    /\ fiber' = [fiber EXCEPT ![f].pc = "setDate:246"]
    /\ handOver(f, "setDate:245", "setDate:246")
    /\ UNCHANGED <<timeToSetpoint, cpuTimeAtSetpoint, serialOut, settled>>
    /\ FiberFrame

\* setDate, line 246: cpuTimeAtSetpoint = cpuTime
setDate_246(f) ==
    /\ mayRun(f, "setDate:246")
    /\ cpuTimeAtSetpoint' = fiber[f].cpuTime
    /\ fiber' = [fiber EXCEPT ![f].pc = "setDate:247"]
    /\ handOver(f, "setDate:246", "setDate:247")
    /\ UNCHANGED <<startYear, timeToSetpoint, serialOut, settled>>
    /\ FiberFrame

\* setDate, line 247: timeToSetpoint is stored, and the function returns
setDate_247(f) ==
    LET t == fiber[f].t
        tts == secondsSoFarForYear(fiber[f].args[1], fiber[f].args[2], startYear,
                                   t.hour, t.minute, t.second)
    IN  /\ mayRun(f, "setDate:247")
        /\ timeToSetpoint' = tts
        /\ fiber' = [fiber EXCEPT ![f].pc = "idle"]
        /\ handOver(f, "setDate:247", "idle")
        /\ settled' = <<startYear, tts, cpuTimeAtSetpoint>>
        /\ UNCHANGED <<startYear, cpuTimeAtSetpoint, serialOut>>
        /\ FiberFrame

\* dateTime, lines 324-326; partial: the clock it read had a half-applied update in it
dateTime_324(f) ==
    LET t == timeFor(timeInSeconds)
    IN  /\ mayRun(f, "dateTime:324")
        /\ fiber' = [fiber EXCEPT ![f].pc = "idle", ![f].cpuTime = timeInSeconds, ![f].t = t,
                                  ![f].text = dateTimeString(t),
                                  ![f].partial = \/ clock # settled
                                                 \/ \E g \in Fibers \ {f} :
                                                      fiber[g].pc \in MidUpdate]
        /\ handOver(f, "dateTime:324", "idle")
        /\ UNCHANGED <<startYear, timeToSetpoint, cpuTimeAtSetpoint, serialOut, settled>>
        /\ FiberFrame

NextFibers ==
    \/ \E dt \in TickMs : Tick(dt)
    \/ \E f \in Fibers, c \in FiberCalls : Dispatch(f, c)
    \/ \E f \in Fibers : advanceBy_270(f)
    \/ \E f \in Fibers : advanceBy_271_read(f)
    \/ \E f \in Fibers : advanceBy_271_assign(f)
    \/ \E f \in Fibers : setTime_257(f)
    \/ \E f \in Fibers : set24HourTime_232(f)
    \/ \E f \in Fibers : set24HourTime_234(f)
    \/ \E f \in Fibers : set24HourTime_235(f)
    \/ \E f \in Fibers : setDate_243(f)
    \/ \E f \in Fibers : setDate_245(f)
    \/ \E f \in Fibers : setDate_246(f)
    \/ \E f \in Fibers : setDate_247(f)
    \/ \E f \in Fibers : dateTime_324(f)

SpecFibers == Init /\ [][NextFibers]_vars

-----------------------------------------------------------------------------
(* The elapsed-time shim cpuTimeInSeconds (C++).  A count of microseconds  *)
(* is written <<s, us>>, s whole seconds and us < 1000000 microseconds, so *)
(* that 32-bit and 64-bit counts are computed exactly: uint32_t counts are *)
(* kept below 2^32 = <<4294, 967296>>.                                     *)

Million == 1000000

\* 2^32 microseconds: where a uint32_t wraps
TwoTo32 == <<4294, 967296>>

\* 2^31 microseconds: from here on a uint32_t read as an int is negative
TwoTo31 == <<2147, 483648>>

\* the 4294000000 of the test on newUs
OopsThreshold == <<4294, 0>>

\* a > b and a >= b on counts
usGt(a, b) == a[1] > b[1] \/ (a[1] = b[1] /\ a[2] > b[2])
usGe(a, b) == a = b \/ usGt(a, b)

\* carries and borrows between the microseconds and the seconds of a count
usNorm(q, r) ==
    IF r < 0 THEN <<q - 1, r + Million>>
    ELSE IF r >= Million THEN <<q + 1, r - Million>> ELSE <<q, r>>

\* a + b and a - b as integers
usAdd(a, b) == usNorm(a[1] + b[1], a[2] + b[2])
usSub(a, b) == usNorm(a[1] - b[1], a[2] - b[2])

\* a + b and a - b in uint32_t
u32Add(a, b) == LET x == usAdd(a, b) IN IF usGe(x, TwoTo32) THEN usSub(x, TwoTo32) ELSE x
u32Sub(a, b) == LET x == usSub(a, b) IN IF x[1] < 0 THEN usAdd(x, TwoTo32) ELSE x

\* the decimal digits of a count
usToString(a) ==
    IF a[1] = 0 THEN natToString(a[2])
    ELSE natToString(a[1]) \o padLoop(natToString(a[2]), 6)

\* what serial.send(int) writes for a uint32_t
intToString(a) == IF usGe(a, TwoTo31) THEN "-" \o usToString(usSub(TwoTo32, a)) ELSE usToString(a)

\* the ticker is let advance at most this many times
MaxTickerSteps == 2

\* cpuTimeInSeconds is called at most this many times
MaxReadings == 2

\* the microseconds the ticker advances by between two looks at it
TickerSteps == {<<0, 100000>>, <<1, 0>>, <<4294, 500000>>}

\* the sum of the 32-bit deltas the calls of cpuTimeInSeconds so far have computed
foldedUs == IF readings = <<>> THEN <<0, 0>> ELSE readings[Len(readings)].folded

\* what the lines of cpuTimeInSeconds leave alone
ShimFrame ==
    UNCHANGED <<startYear, timeToSetpoint, cpuTimeAtSetpoint, runningTime, serialOut,
                lastCall, result, advances, calc, settled, blocked>>

\* the free-running 32-bit hardware ticker advances by d and wraps at 2^32
us_ticker(d) ==
    /\ tickerSteps < MaxTickerSteps
    /\ tickerSteps' = tickerSteps + 1
    /\ usTicker' = u32Add(usTicker, d)
    /\ elapsedUs' = usAdd(elapsedUs, d)
    /\ UNCHANGED <<lastUs, totalUs, readings, sent, fiber, running>>
    /\ ShimFrame

\* the statements of cpuTimeInSeconds that call loopUntilSent, and the one after each
SendLines == {"cpuTimeInSeconds:59", "cpuTimeInSeconds:60", "cpuTimeInSeconds:61",
              "cpuTimeInSeconds:62", "cpuTimeInSeconds:63"}

lineAfter(pc) ==
    IF pc = "cpuTimeInSeconds:59" THEN "cpuTimeInSeconds:60"
    ELSE IF pc = "cpuTimeInSeconds:60" THEN "cpuTimeInSeconds:61"
    ELSE IF pc = "cpuTimeInSeconds:61" THEN "cpuTimeInSeconds:62"
    ELSE IF pc = "cpuTimeInSeconds:62" THEN "cpuTimeInSeconds:63"
    ELSE "cpuTimeInSeconds:80"

\* the argument fiber f hands to loopUntilSent at pc: lastUs is read when the call is made
sendArgument(f, pc) ==
    IF pc = "cpuTimeInSeconds:59" THEN "Oops\nCurrent="
    ELSE IF pc = "cpuTimeInSeconds:60" THEN intToString(fiber[f].currentUs)
    ELSE IF pc = "cpuTimeInSeconds:61" THEN "\nlast="
    ELSE IF pc = "cpuTimeInSeconds:62" THEN intToString(lastUs)
    ELSE "\n"

\* cpuTimeInSeconds, lines 51-57, called in the idle fiber f: the ticker is read, lastUs
\* stored and newUs tested; totalUs is never written
cpuTimeInSeconds(f) ==
    LET currentUs == usTicker
        newUs == u32Sub(currentUs, lastUs)
    IN  /\ fiber[f].pc = "idle"
        /\ running = 0
        /\ Len(readings) < MaxReadings
        /\ lastUs' = currentUs
        /\ readings' = Append(readings, [returned |-> FALSE, value |-> 0,
                                         elapsed |-> elapsedUs,
                                         folded |-> usAdd(foldedUs, newUs)])
        /\ fiber' = [fiber EXCEPT ![f] =
                       [IdleFiber EXCEPT !.pc = IF usGt(newUs, OopsThreshold)
                                                THEN "cpuTimeInSeconds:59"
                                                ELSE "cpuTimeInSeconds:80",
                                         !.op = "cpuTimeInSeconds",
                                         !.currentUs = currentUs,
                                         !.reading = Len(readings) + 1]]
        /\ running' = f
        /\ UNCHANGED <<totalUs, usTicker, elapsedUs, tickerSteps, sent>>
        /\ ShimFrame

\* no other fiber than f is asleep inside uBit.serial.send, holding the port
portFree(f) == \A g \in Fibers \ {f} : fiber[g].pc # "serial.send"

\* loopUntilSent, lines 25 and 32: uBit.serial.send takes the argument; it returns at
\* once, or the fiber sleeps in it until the text has gone and other fibers run
loopUntilSent_25(f) ==
    /\ fiber[f].pc \in SendLines
    /\ running \in {0, f}
    /\ portFree(f)
    /\ sent' = sent \o sendArgument(f, fiber[f].pc)
    /\ \/ /\ fiber' = [fiber EXCEPT ![f].pc = lineAfter(fiber[f].pc)]
          /\ running' = f
       \/ /\ fiber' = [fiber EXCEPT ![f].pc = "serial.send", ![f].line = fiber[f].pc]
          /\ running' = 0
    /\ UNCHANGED <<lastUs, totalUs, usTicker, elapsedUs, tickerSteps, readings>>
    /\ ShimFrame

\* loopUntilSent, lines 25-26 and 32-33 (28 and 35 after a retry): the fiber asleep in
\* uBit.serial.send wakes, the call returns and the loop is left
loopUntilSent_26(f) ==
    /\ fiber[f].pc = "serial.send"
    /\ running = 0
    /\ fiber' = [fiber EXCEPT ![f].pc = lineAfter(fiber[f].line)]
    /\ running' = f
    /\ UNCHANGED <<lastUs, totalUs, usTicker, elapsedUs, tickerSteps, readings, sent>>
    /\ ShimFrame

\* loopUntilSent, lines 25-27 and 32-34: the port is in use, the fiber sleeps in
\* uBit.sleep(0) and lets other fibers run
loopUntilSent_27(f) ==
    /\ fiber[f].pc \in SendLines
    /\ running \in {0, f}
    /\ fiber' = [fiber EXCEPT ![f].pc = "loopUntilSent:27", ![f].line = fiber[f].pc,
                              ![f].str = sendArgument(f, fiber[f].pc)]
    /\ running' = 0
    /\ UNCHANGED <<lastUs, totalUs, usTicker, elapsedUs, tickerSteps, readings, sent>>
    /\ ShimFrame

\* loopUntilSent, lines 26-28 and 33-35: after the sleep the send is tried again; it is
\* taken (and returns at once, or the fiber sleeps in it), or the port is still in use
\* and the fiber sleeps again in uBit.sleep(0)
loopUntilSent_28(f) ==
    /\ fiber[f].pc = "loopUntilSent:27"
    /\ running \in {0, f}
    /\ \/ /\ portFree(f)
          /\ sent' = sent \o fiber[f].str
          /\ \/ /\ fiber' = [fiber EXCEPT ![f].pc = lineAfter(fiber[f].line)]
                /\ running' = f
             \/ /\ fiber' = [fiber EXCEPT ![f].pc = "serial.send"]
                /\ running' = 0
       \/ /\ running' = 0
          /\ UNCHANGED <<sent, fiber>>
    /\ UNCHANGED <<lastUs, totalUs, usTicker, elapsedUs, tickerSteps, readings>>
    /\ ShimFrame

\* cpuTimeInSeconds, line 80: return totalUs / 1000000
cpuTimeInSeconds_80(f) ==
    /\ mayRun(f, "cpuTimeInSeconds:80")
    /\ readings' = [readings EXCEPT ![fiber[f].reading].returned = TRUE,
                                    ![fiber[f].reading].value = totalUs[1]]
    /\ fiber' = [fiber EXCEPT ![f].pc = "idle"]
    /\ running' = 0
    /\ UNCHANGED <<lastUs, totalUs, usTicker, elapsedUs, tickerSteps, sent>>
    /\ ShimFrame

NextShim ==
    \/ \E d \in TickerSteps : us_ticker(d)
    \/ \E f \in Fibers : cpuTimeInSeconds(f)
    \/ \E f \in Fibers : loopUntilSent_25(f)
    \/ \E f \in Fibers : loopUntilSent_26(f)
    \/ \E f \in Fibers : loopUntilSent_27(f)
    \/ \E f \in Fibers : loopUntilSent_28(f)
    \/ \E f \in Fibers : cpuTimeInSeconds_80(f)

SpecShim == Init /\ [][NextShim]_vars

-----------------------------------------------------------------------------
(* What the claims are stated with: the Gregorian calendar, written        *)
(* independently of the program's tables.                                  *)

gregorianLeap(y) == (y % 4 = 0 /\ y % 100 # 0) \/ y % 400 = 0

yearLength(y) == IF gregorianLeap(y) THEN 366 ELSE 365

\* the instant the clock shows now
now == timeInSeconds
shown == timeFor(now)

\* timeToSetpoint + deltaTime for the reading now
virtualSeconds == add(timeToSetpoint, now - cpuTimeAtSetpoint)

\* t is a calendar instant: every field in its Gregorian range
validInstant(t) ==
    /\ t.month \in 1..12
    /\ t.day \in 1..daysInMonth(t.month, t.year)
    /\ t.hour \in 0..23
    /\ t.minute \in 0..59
    /\ t.second \in 0..59
    /\ t.dayOfYear \in 1..yearLength(t.year)

\* t shows the date and time given, whatever its dayOfYear
showsExactly(t, y, mo, d, h, mi, s) ==
    /\ t.year = y /\ t.month = mo /\ t.day = d
    /\ t.hour = h /\ t.minute = mi /\ t.second = s

\* the 24-hour hour of h o'clock am or pm, h in 1..12
hour24(h, ampm) ==
    IF ampm = AM THEN (IF h = 12 THEN 0 ELSE h) ELSE (IF h = 12 THEN 12 ELSE h + 12)

\* the numbers of seconds the clock is advanced by when a year end is near
C5Seconds == {0, 1, 29, 30, 31, 40, 86400, 3 * 86400}

\* the days of year y before month m
RECURSIVE daysBeforeMonth(_, _)
daysBeforeMonth(m, y) == IF m = 1 THEN 0 ELSE daysBeforeMonth(m - 1, y) + daysInMonth(m - 1, y)

\* seconds from Jan 1 00:00:00 of year y, carried into the year they fall in: <<s, y>>
RECURSIVE carryYears(_, _)
carryYears(s, y) ==
    IF s >= yearLength(y) * 86400 THEN carryYears(s - yearLength(y) * 86400, y + 1)
    ELSE <<s, y>>

\* the Gregorian instant k >= 0 seconds after the calendar instant t
secondsAfter(t, k) ==
    LET s0 == (((daysBeforeMonth(t.month, t.year) + t.day - 1) * 24 + t.hour) * 60
                  + t.minute) * 60 + t.second + k
        sy == carryYears(s0, t.year)
        n == sy[1] \div 86400
        mo == CHOOSE m \in 1..12 :
                 /\ daysBeforeMonth(m, sy[2]) <= n
                 /\ n < daysBeforeMonth(m, sy[2]) + daysInMonth(m, sy[2])
    IN  DateTime(mo, n - daysBeforeMonth(mo, sy[2]) + 1, sy[2], (sy[1] % 86400) \div 3600,
                 (sy[1] % 3600) \div 60, sy[1] % 60, n + 1)

\* the amounts advanceBy is tried with in every state
C9Amounts == {-366, -1, 40}

secondsPerUnit(unit) ==
    IF unit = Seconds THEN 1
    ELSE IF unit = Minutes THEN 60
    ELSE IF unit = Hours THEN 3600 ELSE 86400

\* the names of the calls that only read the clock, and of those that register a handler
Queries == {"time", "date", "dateTime", "numericTime"}
Registrations == {"onMinuteChanged", "onHourChanged", "onDayChanged"}

\* the hour a 12-hour clock shows at hour h of the day, and its suffix
displayedHour(h) == IF h = 0 THEN 12 ELSE IF h <= 12 THEN h ELSE h - 12
suffix(h) == IF h < 12 THEN "am" ELSE "pm"

\* a number below 100 in two digits
twoDigits(n) == digit(n \div 10) \o digit(n % 10)

\* the amounts of milliseconds advanceBy is tried with in every state
C12Amounts == {-1000, 1, 999, 1000, 60000}

\* the readings, as offsets in seconds from the current one, the resolver is tried at
C13Offsets == {-400 * 86400, -86400, -1, 0, 1, 86400, 366 * 86400}

\* the seconds after a setpoint the clock is followed for
C18Seconds == 0..40

\* instant a is not after instant b: (year, month, day, hour, minute, second) in order
lexLE(a, b) ==
    LET ka == <<a.year, a.month, a.day, a.hour, a.minute, a.second>>
        kb == <<b.year, b.month, b.day, b.hour, b.minute, b.second>>
    IN  \/ ka = kb
        \/ \E i \in 1..6 : ka[i] < kb[i] /\ \A j \in 1..(i - 1) : ka[j] = kb[j]

-----------------------------------------------------------------------------
(* C8: date -> day of year -> date is the identity on every valid date of  *)
(* every year tried (leap and non-leap); Feb 29 of a leap year is day 60,  *)
(* day 61 of a leap year is Mar 1, and Dec 31 is day 365 or 366.           *)
C8_RoundTrip ==
    /\ calc.step \in {"dayOfYear", "monthAndDay"} =>
         /\ (calc.m = 2 /\ calc.d = 29) => calc.dayOfYear = 60
         /\ (calc.m = 12 /\ calc.d = 31) => calc.dayOfYear = yearLength(calc.y)
         /\ calc.dayOfYear \in 1..yearLength(calc.y)
    /\ calc.step = "monthAndDay" =>
         /\ calc.month = calc.m
         /\ calc.day = calc.d
         /\ (gregorianLeap(calc.y) /\ calc.dayOfYear = 61) => (calc.month = 3 /\ calc.day = 1)

\* Feb 29, 2024 went to day 60 and came back as Feb 29
C8_Witness ==
    /\ calc.step = "monthAndDay"
    /\ calc.y = 2024 /\ calc.m = 2 /\ calc.d = 29
    /\ calc.dayOfYear = 60 /\ calc.month = 2 /\ calc.day = 29

-----------------------------------------------------------------------------
(* C1: with in-range arguments, amounts >= 0 and the passing of time, the  *)
(* instant the resolver returns is always a calendar instant: month in     *)
(* 1..12, day within the month, hour, minute and second in range,          *)
(* dayOfYear within the year; never the sentinel month = day = -1.  Stated *)
(* for the states in which a date has been set (startYear >= 2020), which  *)
(* are among the states the claim speaks of.                               *)
C1_AlwaysCalendarInstant == startYear >= 2020 => validInstant(shown)

-----------------------------------------------------------------------------
(* C2: whenever the clock shows a calendar instant, set24HourTime(h, mi,   *)
(* s) called then (same reading of the running time) leaves the year,      *)
(* month and day shown as they were, shows h:mi.s, and leaves startYear    *)
(* equal to the year shown.  Stated for the states in which a date has     *)
(* been set (startYear >= 2020), which are among those the claim covers.   *)
C2_Set24HourTimeKeepsDate ==
    (startYear >= 2020 /\ validInstant(shown)) =>
      \A a \in SetTimes24 :
        LET c == set24HourTimeOn(clock, now, a[1], a[2], a[3])
            after == timeForClock(c[1], c[2], c[3], now)
        IN  /\ showsExactly(after, shown.year, shown.month, shown.day, a[1], a[2], a[3])
            /\ c[1] = shown.year

-----------------------------------------------------------------------------
(* C3: in every reachable state, setDate(m, d, y) followed at once by      *)
(* set24HourTime(h, mi, s) makes the resolver return exactly y-m-d h:mi.s. *)
C3_SetpointConsistency ==
    \A dt \in SetDates, a \in SetTimes24 :
      LET c1 == setDateOn(clock, now, dt[1], dt[2], dt[3])
          c2 == set24HourTimeOn(c1, now, a[1], a[2], a[3])
          after == timeForClock(c2[1], c2[2], c2[3], now)
      IN  showsExactly(after, dt[3], dt[1], dt[2], a[1], a[2], a[3])

-----------------------------------------------------------------------------
(* C4: setTime(h, mi, s, ampm), h in 1..12, does what set24HourTime(H, mi, *)
(* s) does, H = 0 for 12 AM, h for 1..11 AM, 12 for 12 PM, h + 12 for      *)
(* 1..11 PM: right after a setTime call that leaves a calendar instant the *)
(* clock shows H:mi.s, and the next setTime call would again do what       *)
(* set24HourTime does with that H.                                         *)
C4_SetTimeNormalizes ==
    (lastCall.op = "setTime" /\ validInstant(shown)) =>
      /\ shown.hour = hour24(lastCall.args[1], lastCall.args[4])
      /\ shown.minute = lastCall.args[2]
      /\ shown.second = lastCall.args[3]
      /\ \A h \in 1..12, ampm \in {AM, PM} :
           setTimeOn(clock, now, h, 30, 0, ampm)
               = set24HourTimeOn(clock, now, hour24(h, ampm), 30, 0)

-----------------------------------------------------------------------------
(* C5: when set24HourTime has just set the clock to a calendar instant T   *)
(* of a year that setDate set, then advanceBy(k, Seconds), and likewise k  *)
(* seconds of running time, make the resolver return the Gregorian instant *)
(* k seconds after T, also when that instant is in the next year.          *)
C5_AdvanceAcrossYears ==
    (lastCall.op = "set24HourTime" /\ startYear >= 2020 /\ validInstant(shown)) =>
      \A k \in C5Seconds :
        LET c == advanceByOn(clock, k, Seconds)
        IN  /\ timeForClock(c[1], c[2], c[3], now) = secondsAfter(shown, k)
            /\ timeFor(now + k) = secondsAfter(shown, k)

-----------------------------------------------------------------------------
(* C6: when startYear is not a leap year and the resolver returns a        *)
(* calendar instant of that year, then 365 * 86400 seconds later it        *)
(* returns the same month, day, hour, minute and second of the next year.  *)
C6_YearRollover ==
    (~gregorianLeap(startYear) /\ validInstant(shown) /\ shown.year = startYear) =>
      showsExactly(timeFor(now + 365 * 86400), shown.year + 1, shown.month, shown.day,
                   shown.hour, shown.minute, shown.second)

-----------------------------------------------------------------------------
(* C7: in every state in which the virtual time is not before the start of *)
(* startYear, setDate(m, d, y) called then makes the resolver return       *)
(* y-m-d with the hour, minute and second it returned before, and leaves   *)
(* startYear = y and cpuTimeAtSetpoint = the reading of the running time.  *)
C7_SetDateKeepsTimeOfDay ==
    ~lt(virtualSeconds, 0) =>
      \A dt \in SetDates :
        LET c == setDateOn(clock, now, dt[1], dt[2], dt[3])
            after == timeForClock(c[1], c[2], c[3], now)
        IN  /\ showsExactly(after, dt[3], dt[1], dt[2], shown.hour, shown.minute, shown.second)
            /\ c[1] = dt[3]
            /\ c[3] = now

-----------------------------------------------------------------------------
(* C9: advanceBy(a, unit), unit one of Seconds, Minutes, Hours, Days, only *)
(* lowers cpuTimeAtSetpoint by a * f (f = 1, 60, 3600, 86400); the instant *)
(* resolved after it, at the reading e of that moment, is the instant that *)
(* is resolved at e + a * f without it; and advanceBy(-a, unit) after it   *)
(* restores the clock.                                                     *)
C9_AdvanceByShiftsClock ==
    \A a \in C9Amounts, u \in {Seconds, Minutes, Hours, Days} :
      LET c == advanceByOn(clock, a, u)
          back == advanceByOn(c, -a, u)
      IN  /\ c = <<startYear, timeToSetpoint, cpuTimeAtSetpoint - a * secondsPerUnit(u)>>
          /\ timeForClock(c[1], c[2], c[3], now) = timeFor(now + a * secondsPerUnit(u))
          /\ back = clock

\* advanceBy(366, Days) has just moved 2022-01-01 00:00.00 to 2023-01-02 00:00.00
C9_Witness ==
    /\ lastCall = Call("advanceBy", <<366, Days>>)
    /\ showsExactly(shown, 2023, 1, 2, 0, 0, 0)
    /\ startYear = 2022
    /\ cpuTimeAtSetpoint = now - 366 * 86400

-----------------------------------------------------------------------------
(* C10: a step that runs a query (time, date, dateTime, numericTime with   *)
(* its handler) or a registration (onMinuteChanged, onHourChanged,         *)
(* onDayChanged) leaves startYear, timeToSetpoint and cpuTimeAtSetpoint as *)
(* they were; two queries in a row at the same running time resolve the    *)
(* same instant.                                                           *)
C10_QueriesLeaveClockAlone ==
    [][ /\ (lastCall'.op \in Queries \cup Registrations) => UNCHANGED clock
        /\ (lastCall.op \in Queries /\ lastCall'.op \in Queries) => result'.t = result.t
      ]_vars

\* numericTime has handed its handler 10:30.00, weekday number 25, 2024-06-15, day 167
C10_Witness ==
    /\ lastCall.op = "numericTime"
    /\ result.handler = <<10, 30, 0, 25, 15, 6, 2024, 167>>
    /\ clock = <<2024, secondsSoFarForYear(6, 15, 2024, 10, 30, 0), now>>

-----------------------------------------------------------------------------
(* C11: for every resolved hour H in 0..23, time(AMPM) returns the hour 12 *)
(* when H = 0, H when 1 <= H <= 12 and H - 12 when H > 12 (so an hour in   *)
(* 1..12), then ":", the minute and second in two digits, and "am" exactly *)
(* when H < 12, "pm" otherwise.                                            *)
C11_TwelveHourRendering ==
    (lastCall = Call("time", <<AMPM>>) /\ result.t.hour \in 0..23) =>
      /\ displayedHour(result.t.hour) \in 1..12
      /\ result.text = numToString(displayedHour(result.t.hour)) \o ":"
                          \o twoDigits(result.t.minute) \o "."
                          \o twoDigits(result.t.second) \o suffix(result.t.hour)

\* time(AMPM) has rendered 13:00.00 as 1:00.00pm
C11_Witness ==
    /\ lastCall = Call("time", <<AMPM>>)
    /\ result.t.hour = 13
    /\ result.text = "1:00.00pm"

-----------------------------------------------------------------------------
(* C12: advanceBy(a, Milliseconds) changes none of startYear,              *)
(* timeToSetpoint, cpuTimeAtSetpoint, whatever a is (multiples of 1000     *)
(* too), in neither of its steps (the serial write, the subtraction), and  *)
(* the instant resolved after each is the one resolved before it.          *)
C12_MillisecondsDoNothing ==
    [][ /\ \A a \in C12Amounts : advanceByOn(clock, a, Milliseconds) = clock
        /\ (lastCall'.op \in {"advanceBy:270", "advanceBy"}
               /\ lastCall'.args[2] = Milliseconds) =>
              (UNCHANGED clock /\ shown' = shown)
      ]_vars

\* advanceBy(1000, Milliseconds) was called on 2024-12-31 at 23:59.30, which the clock still shows
C12_Witness ==
    /\ lastCall = Call("advanceBy", <<1000, Milliseconds>>)
    /\ showsExactly(shown, 2024, 12, 31, 23, 59, 30)
    /\ cpuTimeAtSetpoint = now

-----------------------------------------------------------------------------
(* C13: the resolver only rolls years forward: at every reading the year   *)
(* it returns is >= startYear, and when timeToSetpoint + (reading -        *)
(* cpuTimeAtSetpoint) is negative the loop does not run, the year returned *)
(* is startYear itself and the seconds are left negative.                  *)
C13_OnlyRollsForward ==
    /\ \A e \in C13Offsets :
         /\ timeFor(now + e).year >= startYear
         /\ lt(add(virtualSeconds, e), 0) => timeFor(now + e).year = startYear
    /\ lt(virtualSeconds, 0) =>
         /\ shown.year = startYear
         /\ rollYears(virtualSeconds, startYear) = <<virtualSeconds, startYear>>

\* advanceBy(-5, Seconds) has put the clock 5 seconds before 2022-01-01 00:00.00
C13_Witness ==
    /\ lastCall = Call("advanceBy", <<-5, Seconds>>)
    /\ startYear = 2022
    /\ virtualSeconds = -5
    /\ showsExactly(shown, 2022, 1, 1, 0, 0, -5)

-----------------------------------------------------------------------------
(* C14: dayOfYearToMonthAndDay(dayOfYear, y) returns month = day = -1 for  *)
(* every dayOfYear < 1 and every dayOfYear above the length of year y, and *)
(* for no dayOfYear in 1..length(y).                                       *)
C14_SentinelForInvalidDay ==
    calc.step = "monthAndDay" =>
      ((calc.dayOfYear < 1 \/ calc.dayOfYear > yearLength(calc.y))
          <=> (calc.month = -1 /\ calc.day = -1))

-----------------------------------------------------------------------------
(* C15: a step of set24HourTime or setTime leaves startYear as it was and  *)
(* sets cpuTimeAtSetpoint to the reading of the running time; a step of    *)
(* setDate(m, d, y) sets startYear to y and cpuTimeAtSetpoint to the       *)
(* reading.                                                                *)
C15_SetTimeKeepsStartYear ==
    [][ /\ (lastCall'.op \in {"set24HourTime", "setTime"}) =>
              (startYear' = startYear /\ cpuTimeAtSetpoint' = now')
        /\ (lastCall'.op = "setDate") =>
              (startYear' = lastCall'.args[3] /\ cpuTimeAtSetpoint' = now')
      ]_vars

\* set24HourTime(10, 30, 0) ran when the clock of 2022 showed 2023-01-02: startYear is still 2022
C15_Witness ==
    /\ lastCall = Call("set24HourTime", <<10, 30, 0>>)
    /\ clock = <<2022, 86400 + 37800, now>>
    /\ advances = 1

-----------------------------------------------------------------------------
(* C18: after set24HourTime has set a clock whose date setDate set, and    *)
(* with no mutator called since, the instant resolved one second later is  *)
(* never before the instant resolved now in (year, month, day, hour,       *)
(* minute, second) order, and is its calendar successor; this for each of  *)
(* the seconds that follow the setpoint.                                   *)
C18_NeverRunsBackwards ==
    (lastCall.op = "set24HourTime" /\ startYear >= 2020 /\ validInstant(shown)) =>
      \A k \in C18Seconds :
        LET a == timeFor(now + k)
            b == timeFor(now + k + 1)
        IN  /\ lexLE(a, b)
            /\ validInstant(a)
            /\ b = secondsAfter(a, 1)

-----------------------------------------------------------------------------
(* C17: every call of cpuTimeInSeconds returns the whole seconds of the    *)
(* sum of the 32-bit ticker deltas of the calls so far (each delta taken   *)
(* modulo 2^32, one above 4 294 000 000 included, and added to the 64-bit  *)
(* total), and no call returns less than a call that returned before it.   *)
C17_ShimCountsSeconds ==
    \A i \in 1..Len(readings) :
      readings[i].returned =>
        /\ readings[i].value = readings[i].folded[1]
        /\ \A j \in 1..(i - 1) :
             readings[j].returned => readings[i].value >= readings[j].value

-----------------------------------------------------------------------------
(* C16: with the handlers in different fibers that change over only in a   *)
(* blocking call (the serial write of advanceBy) or at a return: while a   *)
(* mutator has stored only some of its fields no other fiber runs; no      *)
(* query has resolved an instant from a clock with a half-applied update   *)
(* in it; and every completed advanceBy has moved cpuTimeAtSetpoint by its *)
(* own amount, whatever ran while it was blocked.                          *)
C16_AtomicUpdates ==
    \A f \in Fibers :
      /\ fiber[f].pc \in MidUpdate => running = f
      /\ (fiber[f].op = "dateTime" /\ fiber[f].pc = "idle") => ~fiber[f].partial
      /\ (fiber[f].op = "advanceBy" /\ fiber[f].pc = "idle") =>
            fiber[f].shift = -(fiber[f].args[1] * secondsPerUnit(fiber[f].args[2]))

\* advanceBy(40, Seconds) began at cpuTimeAtSetpoint = 0, advanceBy(-5, Seconds) ran in the
\* other fiber while it was blocked, and it has returned: both shifts are in the clock
C16_Witness ==
    /\ fiber[1].op = "advanceBy" /\ fiber[1].args = <<40, Seconds>> /\ fiber[1].pc = "idle"
    /\ fiber[1].entry = 0
    /\ fiber[1].operand = 5
    /\ fiber[2].op = "advanceBy" /\ fiber[2].args = <<-5, Seconds>> /\ fiber[2].pc = "idle"
    /\ cpuTimeAtSetpoint = -35

====
